---- MODULE Spec2Model ----
(***************************************************************************)
(* Model of the task-graph engine of data-workflow:                        *)
(*   src/workflow/tasks/graph.py   (TaskGraph)                             *)
(*   src/workflow/commands/run.py  (Command.inner_execute)                 *)
(*                                                                         *)
(* A task is identified by the integer that stands for its `creates`       *)
(* value; the resource a task creates carries the same name.  Iteration    *)
(* over a Python set has no defined order, so every loop over a set is a   *)
(* choice among all orders.                                                *)
(***************************************************************************)
EXTENDS Integers, Sequences, FiniteSets, TLC

\* ------------------------------------------------------------- bounds
NumTasks == 3

\* getattr(e, 'exit_code', 1)
DefaultExitCode == 1
\* task_id=None of Command.execute
NoTaskId == 0
\* an error without an exit_code attribute
NoExitCode == 0
\* exit_code while the process has not called sys.exit
NotExited == -1

Tasks == 1..NumTasks
\* the duration duration.csv holds for a task run before the command
\* started, and the one a timed_run of the command measures
RecordedDuration == 15
MeasuredDuration == 127
\* the exit_code a ShellError carries: the status of the failed command
ShellExitCode == 2

\* the fingerprints get_current_state returns: opaque values, compared
\* for equality only
Fingerprints == {"f1", "f2"}
\* the '' of the override of _run_helper
EmptyState == ""
\* the None get_state_from_storage returns for a resource without a row
NoState == "None"

VARIABLES
    depends,        \* task -> the task ids of its `depends` declaration
    pseudo,         \* the tasks whose is_pseudotask() is true
    current,        \* resource name -> resource.get_current_state()
    state_csv,      \* .workflow/state.csv: resource name -> fingerprint
    duration_csv,   \* .workflow/duration.csv: task id -> duration
    task_id,        \* arguments of Command.inner_execute
    force,
    dry_run,
    task_graph,     \* Command.task_graph, the TaskGraph instance
    pc,             \* position of inner_execute
    traversal,      \* the iter_graph() order taken by run_all / get_out_of_sync_tasks
    starting_tasks, \* _run_helper's starting_tasks
    order,          \* iter_graph(starting_tasks) of _run_helper
    pos,            \* index in order of the task the loop is at
    log,            \* history: the runs invoked, in order
    saves,          \* history: number of save_state calls
    before_save,    \* history: state.csv as the last save_state read it
    last_override,  \* history: the override keys of the last save_state
    exit_code,      \* the argument of sys.exit, NotExited while the process lives
    error,          \* history: the exception timed_run raised
    initial_storage,\* history: state.csv and duration.csv when the command started
    other_wrote,    \* history: the rows another graph instance wrote to state.csv
    \* TaskGraph.__init__ on a list of declarations
    task_kwargs_list, \* the argument of __init__: the declarations, in order
    exists,         \* the paths os.path.exists finds under root_directory
    graph,          \* the instance under construction: task_list, task_dict, ...
    init_pc,        \* position of __init__, or the exception it raised
    init_i,         \* index of the loop __init__ is in
    got,            \* what a call of get_tasks returned or raised
    \* one call of iter_graph
    bfs_pc,         \* position of iter_graph
    bfs_graph,      \* the graph iter_graph is called on
    bfs_tasks,      \* its argument tasks, <<>> for None
    bfs_downstream, \* its argument downstream
    bfs_horizon,    \* the deque horizon
    bfs_horizon_set,\* horizon_set
    bfs_done,       \* done
    bfs_task_order, \* task_order
    bfs_steps       \* history: iterations of the while loop so far

runVars == <<depends, pseudo, current, state_csv, duration_csv, task_id, force,
             dry_run, task_graph, pc, traversal, starting_tasks, order, pos, log,
             saves, before_save, last_override, exit_code, error, initial_storage>>

initVars == <<task_kwargs_list, exists, graph, init_pc, init_i, got>>

bfsVars == <<bfs_pc, bfs_graph, bfs_tasks, bfs_downstream, bfs_horizon, bfs_horizon_set, bfs_done,
             bfs_task_order, bfs_steps>>

vars == <<runVars, other_wrote, initVars, bfsVars>>

\* ------------------------------------------------------------ helpers
Range(s) == {s[i] : i \in 1..Len(s)}

\* every order in which a loop may iterate over the set S
RECURSIVE Perms(_)
Perms(S) ==
    IF S = {} THEN {<<>>}
    ELSE UNION {{<<x>> \o p : p \in Perms(S \ {x})} : x \in S}

NoTable == [k \in {} |-> ""]

\* dict.update(): the entries of g override those of f
Update(f, g) == [k \in (DOMAIN f) \cup (DOMAIN g) |-> IF k \in DOMAIN g THEN g[k] ELSE f[k]]

\* ------------------------------------------------- graph construction
\* TaskGraph.add: task_dict is keyed by `creates`; the tasks of a list
TaskDict(task_list) == Range(task_list)

\* resources.get_or_create(graph, names): every name gets an entry of
\* resource_dict, an existing entry is reused
GetOrCreate(resource_dict, names) == resource_dict \cup names

\* one pass of the loop of _link_dependencies over task_list[i..]: the
\* resources of depends_list and creates_list are instantiated, then a
\* pseudotask's `creates` entry is deleted
RECURSIVE LinkResources(_, _, _)
LinkResources(task_list, i, resource_dict) ==
    IF i > Len(task_list) THEN resource_dict
    ELSE LET task == task_list[i]
             withDepends == GetOrCreate(resource_dict, depends[task])
             withCreates == GetOrCreate(withDepends, {task})
             kept == IF task \in pseudo THEN withCreates \ {task} ELSE withCreates
         IN LinkResources(task_list, i + 1, kept)

\* _link_dependency_helper: a dependency that names a task of the graph
\* becomes an upstream task
LinkDependencyHelper(task_list, task) == depends[task] \cap TaskDict(task_list)

\* A duration is a float; the model holds it as the integer its decimal
\* digits spell, and duration.csv holds the digits the csv writer wrote.
\* mutant of FloatRepr: str(x), which keeps the leading digits only (two
\* in the model)
RECURSIVE FloatStr(_)
FloatStr(x) ==
    IF x < 10 THEN <<x>>
    ELSE IF x < 100 THEN <<x \div 10, x % 10>>
    ELSE Append(FloatStr(x \div 10), 0)

\* the text csv.writer writes for a float: repr(x), every digit of x
RECURSIVE FloatRepr(_)
FloatRepr(x) ==
    IF x < 10 THEN <<x>> ELSE Append(FloatRepr(x \div 10), x % 10)

\* float(text)
RECURSIVE FloatOf(_)
FloatOf(text) ==
    IF Len(text) = 1 THEN text[1]
    ELSE 10 * FloatOf(SubSeq(text, 1, Len(text) - 1)) + text[Len(text)]

\* _load_state: the rows of duration.csv, typecast
LoadState(durations) == [k \in DOMAIN durations |-> FloatOf(durations[k])]

\* TaskGraph.__init__
TaskGraph(task_list) ==
    [task_list      |-> task_list,
     upstream_tasks |-> [t \in Range(task_list) |-> LinkDependencyHelper(task_list, t)],
     resource_dict  |-> LinkResources(task_list, 1, {}),
     task_durations |-> LoadState(duration_csv),
     successful     |-> FALSE]

GraphTasks(g) == Range(g.task_list)
UpstreamTasks(g, t) == g.upstream_tasks[t]
\* Task.add_task_dependency keeps both directions
DownstreamTasks(g, t) == {u \in GraphTasks(g) : t \in g.upstream_tasks[u]}

\* mutant of GetSourceTasks: the test of get_sink_tasks in its place
GetSourceTasksByDownstream(g) == {t \in GraphTasks(g) : DownstreamTasks(g, t) = {}}

\* get_source_tasks / get_sink_tasks
GetSourceTasks(g) == {t \in GraphTasks(g) : UpstreamTasks(g, t) = {}}
GetSinkTasks(g) == {t \in GraphTasks(g) : DownstreamTasks(g, t) = {}}

\* ----------------------------------------------------------- traversal
\* the while loop of iter_graph; the result is the set of every task_order
\* the loop can return, one for each order in which the neighbour sets are
\* iterated
RECURSIVE IterLoop(_, _, _, _, _, _)
IterLoop(g, horizon, horizon_set, done, task_order, downstream) ==
    IF horizon = <<>> THEN {task_order}
    ELSE LET n == Len(horizon)
             task == IF downstream THEN horizon[1] ELSE horizon[n]
             rest == IF downstream THEN SubSeq(horizon, 2, n) ELSE SubSeq(horizon, 1, n - 1)
             hset == horizon_set \ {task}
             dn == done \cup {task}
             updownset == IF downstream THEN DownstreamTasks(g, task)
                          ELSE UpstreamTasks(g, task)
             new == (updownset \ dn) \ hset
         IN UNION {IterLoop(g, rest \o p, hset \cup new, dn,
                            Append(task_order, task), downstream) : p \in Perms(new)}

\* iter_graph(tasks, downstream): tasks is a list, <<>> for None or empty
IterGraph(g, tasks, downstream) ==
    LET starts == IF tasks # <<>> THEN {tasks}
                  ELSE IF downstream THEN Perms(GetSourceTasks(g))
                  ELSE Perms(GetSinkTasks(g))
    IN UNION {IterLoop(g, s, Range(s), {}, <<>>, downstream) : s \in starts}

\* ------------------------------------------------------- sync and state
\* get_state_from_storage: the stored value, None (NoState) without a row
GetStateFromStorage(resource) ==
    IF resource \in DOMAIN state_csv THEN state_csv[resource] ELSE NoState

\* the resources a task compares: those of depends_list and, unless it is
\* a pseudotask, of creates_list; a pseudotask has no concrete output
TaskResources(g, task) ==
    {d \in depends[task] : d \notin pseudo} \cup (IF task \in pseudo THEN {} ELSE {task})

\* Task.in_sync
InSync(g, task) ==
    \A r \in TaskResources(g, task) : current[r] = GetStateFromStorage(r)

\* mutant of FilterOutOfSync: the is_pseudotask test left out
RECURSIVE FilterOutOfSyncWithPseudo(_, _)
FilterOutOfSyncWithPseudo(g, tasks) ==
    IF tasks = <<>> THEN <<>>
    ELSE LET task == Head(tasks)
             rest == FilterOutOfSyncWithPseudo(g, Tail(tasks))
         IN IF ~InSync(g, task) THEN <<task>> \o rest ELSE rest

\* the filter of get_out_of_sync_tasks over one traversal order
RECURSIVE FilterOutOfSync(_, _)
FilterOutOfSync(g, tasks) ==
    IF tasks = <<>> THEN <<>>
    ELSE LET task == Head(tasks)
             rest == FilterOutOfSync(g, Tail(tasks))
         IN IF task \notin pseudo /\ ~InSync(g, task) THEN <<task>> \o rest ELSE rest

\* mutant of SaveResourceStates: the table is built from this graph's
\* resources alone, without reading state.csv first
SaveWithoutRead(g, fingerprints, override_resource_states) ==
    Update([name \in g.resource_dict |-> fingerprints[name]], override_resource_states)

\* mutant of SaveResourceStates: the table is overlaid on the state.csv
\* of the time the command started, not on a read at the time of the save
SaveOverSnapshot(g, fingerprints, override_resource_states) ==
    LET after_resource_states == initial_storage[1]
        overlaid == Update(after_resource_states,
                           [name \in g.resource_dict |-> fingerprints[name]])
    IN Update(overlaid, override_resource_states)

\* save_state(override_resource_states): the table written to state.csv,
\* with fingerprints the current states of the resources at the call
SaveResourceStates(g, fingerprints, override_resource_states) ==
    LET after_resource_states == state_csv
        overlaid == Update(after_resource_states,
                           [name \in g.resource_dict |-> fingerprints[name]])
    IN Update(overlaid, override_resource_states)

\* save_state: the table written to duration.csv
SaveDurations(g) == [k \in DOMAIN g.task_durations |-> FloatRepr(g.task_durations[k])]

\* ------------------------------------------------------------- errors
\* what timed_run raises: KeyboardInterrupt carries no exit_code, a
\* ShellError carries one
NoError == [type |-> "none", exit_code |-> NoExitCode]

Errors ==
    {[type |-> "KeyboardInterrupt", exit_code |-> NoExitCode]}
    \cup {[type |-> "ShellError", exit_code |-> ShellExitCode]}

\* mutant of ExitCodeOf: e.exit_code without the default
ExitCodeRaw(e) == e.exit_code

\* getattr(e, 'exit_code', 1)
ExitCodeOf(e) == IF e.exit_code = NoExitCode THEN DefaultExitCode ELSE e.exit_code

\* --------------------------------------------------------------- Init
\* the declarations have no cycle: the configuration file declares every
\* task after the tasks it depends on
DeclaredAfterDepends(dep) == \A t \in Tasks : \A d \in dep[t] : d < t

\* the declaration order of the configuration file
Declared == [i \in 1..NumTasks |-> i]

\* a TaskGraph before its first task is added (lines 29-54)
EmptyGraph ==
    [task_list        |-> <<>>,
     task_dict        |-> <<>>,
     resource_dict    |-> {},
     upstream_tasks   |-> <<>>,
     downstream_tasks |-> <<>>,
     task_durations   |-> NoTable,
     loaded           |-> FALSE]

\* get_tasks has not been called
NotCalled == [called |-> FALSE, task_id_or_tag |-> 0, raised |-> "", tasks |-> <<>>]

\* no graph is under construction
InitIdle ==
    /\ task_kwargs_list = <<>>
    /\ exists = {}
    /\ graph = EmptyGraph
    /\ init_pc = "idle"
    /\ init_i = 0
    /\ got = NotCalled

\* no call of iter_graph is traced
BfsIdle ==
    /\ bfs_pc = "idle"
    /\ bfs_graph = [task_list |-> <<>>, upstream_tasks |-> <<>>]
    /\ bfs_tasks = <<>>
    /\ bfs_downstream = TRUE
    /\ bfs_horizon = <<>>
    /\ bfs_horizon_set = {}
    /\ bfs_done = {}
    /\ bfs_task_order = <<>>
    /\ bfs_steps = 0

\* The workspace the command starts in is fresh (no state.csv, no
\* duration.csv), or it was saved by a run of the whole graph that recorded
\* fingerprint "f1" for every resource, and files have been edited since.
Init ==
    /\ depends \in {dep \in [Tasks -> SUBSET Tasks] : DeclaredAfterDepends(dep)}
    /\ pseudo \in SUBSET Tasks
    /\ \E fresh \in BOOLEAN :
          IF fresh
          THEN /\ current = [t \in Tasks |-> "f1"]
               /\ state_csv = NoTable
               /\ duration_csv = NoTable
          ELSE /\ current \in {c \in [Tasks -> Fingerprints] : \A t \in pseudo : c[t] = "f1"}
               /\ state_csv = [name \in LinkResources(Declared, 1, {}) |-> "f1"]
               /\ duration_csv = [t \in Tasks \ pseudo |-> FloatRepr(RecordedDuration)]
    /\ task_id \in {NoTaskId} \cup Tasks
    /\ force \in BOOLEAN
    /\ dry_run \in BOOLEAN
    /\ task_graph = TaskGraph(Declared)
    /\ pc = "start"
    /\ traversal = <<>>
    /\ starting_tasks = <<>>
    /\ order = <<>>
    /\ pos = 0
    /\ log = <<>>
    /\ saves = 0
    /\ before_save = NoTable
    /\ last_override = {}
    /\ exit_code = NotExited
    /\ error = NoError
    /\ initial_storage = <<state_csv, duration_csv>>
    /\ other_wrote = NoTable
    /\ InitIdle
    /\ BfsIdle

\* ------------------------------------------------------------- actions
\* get_tasks(task_id) for an id registered in task_dict
GetTasks(g, id) == <<id>>

\* mutant of SubgraphNeededFor: the traversal follows downstream links
SubgraphOfDownstream(g, task_ids) ==
    IF task_ids = <<>> THEN {g}
    ELSE {TaskGraph(tasks_kwargs_list) :
            tasks_kwargs_list \in IterGraph(g, GetTasks(g, task_ids[1]), TRUE)}

\* subgraph_needed_for(task_ids): the graphs it can return
SubgraphNeededFor(g, task_ids) ==
    IF task_ids = <<>> THEN {g}
    ELSE {TaskGraph(tasks_kwargs_list) :
            tasks_kwargs_list \in IterGraph(g, GetTasks(g, task_ids[1]), FALSE)}

\* inner_execute, lines 16-17: restrict the graph to what task_id needs
Restrict ==
    /\ pc = "start"
    /\ task_graph' \in (IF task_id # NoTaskId
                        THEN SubgraphNeededFor(task_graph, <<task_id>>)
                        ELSE {task_graph})
    /\ pc' = "restricted"
    /\ UNCHANGED <<depends, pseudo, current, state_csv, duration_csv, task_id,
                   force, dry_run, traversal, starting_tasks, order, pos, log,
                   saves, before_save, last_override, exit_code, error, initial_storage,
                   other_wrote, initVars, bfsVars>>

\* mutant of DoRunFunc: run_all runs every task it visits
DoRunFuncEveryTask(g, task) ==
    IF force THEN TRUE
    ELSE task \notin pseudo /\ ~InSync(g, task)

\* do_run_func of run_all and of run_all_out_of_sync
DoRunFunc(g, task) ==
    IF force THEN task \notin pseudo
    ELSE task \notin pseudo /\ ~InSync(g, task)

\* run_all up to the loop of _run_helper
RunAll ==
    /\ pc = "restricted"
    /\ force
    /\ traversal' \in IterGraph(task_graph, <<>>, TRUE)
    /\ starting_tasks' = traversal'
    /\ order' \in IterGraph(task_graph, starting_tasks', TRUE)
    /\ pos' = 1
    /\ pc' = "running"
    /\ UNCHANGED <<depends, pseudo, current, state_csv, duration_csv, task_id,
                   force, dry_run, task_graph, log, saves, before_save,
                   last_override, exit_code, error, initial_storage,
                   other_wrote, initVars, bfsVars>>

\* run_all_out_of_sync up to the loop of _run_helper
RunAllOutOfSync ==
    /\ pc = "restricted"
    /\ ~force
    /\ traversal' \in IterGraph(task_graph, <<>>, TRUE)
    /\ starting_tasks' = FilterOutOfSync(task_graph, traversal')
    /\ order' \in IterGraph(task_graph, starting_tasks', TRUE)
    /\ pos' = 1
    /\ pc' = "running"
    /\ UNCHANGED <<depends, pseudo, current, state_csv, duration_csv, task_id,
                   force, dry_run, task_graph, log, saves, before_save,
                   last_override, exit_code, error, initial_storage,
                   other_wrote, initVars, bfsVars>>

AtTask == pc = "running" /\ pos <= Len(order)

\* the loop of _run_helper at a task do_run_func rejects
SkipTask ==
    /\ AtTask
    /\ ~DoRunFunc(task_graph, order[pos])
    /\ pos' = pos + 1
    /\ UNCHANGED <<depends, pseudo, current, state_csv, duration_csv, task_id,
                   force, dry_run, task_graph, pc, traversal, starting_tasks,
                   order, log, saves, before_save, last_override, exit_code, error, initial_storage,
                   other_wrote, initVars, bfsVars>>

\* the loop of _run_helper, mock_run: task.mock_run()
MockRun ==
    /\ AtTask
    /\ DoRunFunc(task_graph, order[pos])
    /\ dry_run
    /\ log' = Append(log, [task |-> order[pos], kind |-> "mock",
                          in_sync |-> InSync(task_graph, order[pos])])
    /\ pos' = pos + 1
    /\ UNCHANGED <<depends, pseudo, current, state_csv, duration_csv, task_id,
                   force, dry_run, task_graph, pc, traversal, starting_tasks,
                   order, saves, before_save, last_override, exit_code, error, initial_storage,
                   other_wrote, initVars, bfsVars>>

\* the loop of _run_helper: task.timed_run() returns; the task has written
\* its output and its duration is recorded
TimedRun ==
    /\ AtTask
    /\ DoRunFunc(task_graph, order[pos])
    /\ ~dry_run
    /\ \E f \in Fingerprints : current' = [current EXCEPT ![order[pos]] = f]
    /\ task_graph' = [task_graph EXCEPT
          !.task_durations = Update(@, [t \in {order[pos]} |-> MeasuredDuration])]
    /\ log' = Append(log, [task |-> order[pos], kind |-> "timed",
                          in_sync |-> InSync(task_graph, order[pos])])
    /\ pos' = pos + 1
    /\ UNCHANGED <<depends, pseudo, state_csv, duration_csv, task_id, force,
                   dry_run, pc, traversal, starting_tasks, order, saves,
                   before_save, last_override, exit_code, error, initial_storage,
                   other_wrote, initVars, bfsVars>>

\* mutant of FailureOverride: save_state() without the override
NoFailureOverride(task) == NoTable

\* the override of the except clause: {task.name: ''}
FailureOverride(task) == [name \in {task} |-> EmptyState]

\* mutant of FailureExits: the except clause saves and the loop goes on
FailureContinues == FALSE

\* whether the except clause ends the process: sys.exit
FailureExits == TRUE

\* the loop of _run_helper: task.timed_run() raises KeyboardInterrupt or
\* ShellError; whatever the task wrote before is on disk
TimedRunFails ==
    /\ AtTask
    /\ DoRunFunc(task_graph, order[pos])
    /\ ~dry_run
    /\ \E f \in Fingerprints :
          /\ current' = [current EXCEPT ![order[pos]] = f]
          /\ state_csv' = SaveResourceStates(task_graph, current',
                                              FailureOverride(order[pos]))
    /\ duration_csv' = SaveDurations(task_graph)
    /\ before_save' = state_csv
    /\ last_override' = DOMAIN FailureOverride(order[pos])
    /\ saves' = saves + 1
    /\ log' = Append(log, [task |-> order[pos], kind |-> "failed",
                          in_sync |-> InSync(task_graph, order[pos])])
    /\ \E e \in Errors :
          /\ error' = e
          /\ IF FailureExits
             THEN exit_code' = ExitCodeOf(e) /\ pc' = "exited" /\ pos' = pos
             ELSE exit_code' = exit_code /\ pc' = pc /\ pos' = pos + 1
    /\ UNCHANGED <<depends, pseudo, task_id, force, dry_run, task_graph,
                   traversal, starting_tasks, order, initial_storage,
                   other_wrote, initVars, bfsVars>>

\* mutant of SavesAtEnd: no save_state() after the loop
SavesAtEndNever(mock_run) == FALSE

\* mutant of SavesAtEnd: save_state() whatever mock_run is
SavesAtEndAlways(mock_run) == TRUE

\* `if not mock_run` after the loop of _run_helper
SavesAtEnd(mock_run) == ~mock_run

\* _run_helper after the loop, and the return of run_all / run_all_out_of_sync
EndRun ==
    /\ pc = "running"
    /\ pos > Len(order)
    /\ IF SavesAtEnd(dry_run)
       THEN /\ state_csv' = SaveResourceStates(task_graph, current, NoTable)
            /\ duration_csv' = SaveDurations(task_graph)
            /\ before_save' = state_csv
            /\ last_override' = {}
            /\ saves' = saves + 1
       ELSE UNCHANGED <<state_csv, duration_csv, before_save, last_override, saves>>
    /\ pc' = "returned"
    /\ UNCHANGED <<depends, pseudo, current, task_id, force, dry_run,
                   task_graph, traversal, starting_tasks, order, pos, log,
                   exit_code, error, initial_storage,
                   other_wrote, initVars, bfsVars>>

\* inner_execute, line 28
MarkSuccessful ==
    /\ pc = "returned"
    /\ task_graph' = [task_graph EXCEPT !.successful = TRUE]
    /\ pc' = "done"
    /\ UNCHANGED <<depends, pseudo, current, state_csv, duration_csv, task_id,
                   force, dry_run, traversal, starting_tasks, order, pos, log,
                   saves, before_save, last_override, exit_code, error, initial_storage,
                   other_wrote, initVars, bfsVars>>

Next ==
    \/ Restrict
    \/ RunAll
    \/ RunAllOutOfSync
    \/ SkipTask
    \/ MockRun
    \/ TimedRun
    \/ TimedRunFails
    \/ EndRun
    \/ MarkSuccessful

Spec == Init /\ [][Next]_vars

\* the command without --dry-run: every run is a real run
InitReal == Init /\ ~dry_run

NextReal ==
    \/ Restrict
    \/ RunAll
    \/ RunAllOutOfSync
    \/ SkipTask
    \/ TimedRun
    \/ TimedRunFails
    \/ EndRun
    \/ MarkSuccessful

SpecReal == InitReal /\ [][NextReal]_vars

\* ===================================================================
\* TaskGraph.__init__ on declarations with aliases, paths and tags
\* ===================================================================
\* Identifiers (`creates`, `alias`, entries of `depends`) are integers: the
\* i-th identifier of 1..NumTasks is a `creates` value, NumTasks + i the
\* alias AliasOf(i), FilePath a path no task creates, TagId a tag.
\* alias=None, and the None _dereference_alias_helper returns
NoAlias == 0
AliasOf(i) == NumTasks + i
FilePath == 2 * NumTasks + 1
TagId == 2 * NumTasks + 2

\* depends=None, a single identifier, or a list of identifiers
NoDepends == [is_list |-> FALSE, entries |-> <<>>]
SingleDepends(d) == [is_list |-> FALSE, entries |-> <<d>>]
ListDepends(ds) == [is_list |-> TRUE, entries |-> ds]

\* Task.depends_list, Task.creates_list: the list form
DependsList(task) == task.depends.entries
CreatesList(task) == <<task.creates>>

\* Task.has_tag
HasTag(task, tag) == tag \in task.tags

\* the keys add() gives a task in task_dict
KeysOf(task) == {task.creates} \cup (IF task.alias # NoAlias THEN {task.alias} ELSE {})

\* mutant of Add: a key that is already registered is overwritten
AddOverwriting(g, task) ==
    LET n == Len(g.task_list) + 1
        registered == KeysOf(task)
    IN [raised |-> "",
        graph  |-> [g EXCEPT
            !.task_list = Append(@, task),
            !.upstream_tasks = Append(@, {}),
            !.downstream_tasks = Append(@, {}),
            !.task_dict = [k \in (DOMAIN @) \cup registered |->
                              IF k \in registered THEN n ELSE @[k]]]]

\* Task.__init__ and TaskGraph.add(task): the graph afterwards and the
\* exception raised, "" for none.  task_dict maps a key to the index of its
\* task in task_list.
Add(g, task) ==
    LET n == Len(g.task_list) + 1
        appended == [g EXCEPT !.task_list = Append(@, task),
                              !.upstream_tasks = Append(@, {}),
                              !.downstream_tasks = Append(@, {})]
        with_alias == IF task.alias # NoAlias
                      THEN [appended EXCEPT !.task_dict =
                               [k \in (DOMAIN @) \cup {task.alias} |->
                                   IF k = task.alias THEN n ELSE @[k]]]
                      ELSE appended
    IN IF task.alias # NoAlias /\ task.alias \in DOMAIN g.task_dict
       THEN [raised |-> "NonUniqueTask", graph |-> appended]
       ELSE IF task.creates \in DOMAIN with_alias.task_dict
       THEN [raised |-> "NonUniqueTask", graph |-> with_alias]
       ELSE [raised |-> "",
             graph  |-> [with_alias EXCEPT !.task_dict =
                            [k \in (DOMAIN @) \cup {task.creates} |->
                                IF k = task.creates THEN n ELSE @[k]]]]

\* _dereference_alias_helper: the `creates` of the first task whose alias is
\* name, None without one
DereferenceAliasHelper(tasks, name) ==
    IF name = NoAlias THEN NoAlias
    ELSE LET found == {i \in 1..Len(tasks) : tasks[i].alias = name}
         IN IF found = {} THEN NoAlias
            ELSE tasks[CHOOSE i \in found : \A j \in found : i <= j].creates

\* mutant of DereferenceDependsAliases: an alias is known only when its
\* task is declared before the task that uses it
DereferenceDeclaredBefore(tasks) ==
    [i \in 1..Len(tasks) |->
        [tasks[i] EXCEPT !.depends.entries =
            [j \in 1..Len(@) |->
                LET dd == DereferenceAliasHelper(SubSeq(tasks, 1, i - 1), @[j])
                IN IF dd # NoAlias THEN dd ELSE @[j]]]]

\* _dereference_depends_aliases: task_list afterwards
DereferenceDependsAliases(tasks) ==
    [i \in 1..Len(tasks) |->
        [tasks[i] EXCEPT !.depends.entries =
            [j \in 1..Len(@) |->
                LET dd == DereferenceAliasHelper(tasks, @[j])
                IN IF dd # NoAlias THEN dd ELSE @[j]]]]

\* Task.add_task_dependency: both directions are kept
AddTaskDependency(g, i, dependent_task) ==
    [g EXCEPT !.upstream_tasks[i] = @ \cup {dependent_task},
              !.downstream_tasks[dependent_task] = @ \cup {i}]

\* mutant of PathExists: every path is taken to exist
PathAlwaysExists(paths, dependency) == TRUE

\* os.path.exists(os.path.join(self.root_directory, dependency))
PathExists(paths, dependency) == dependency \in paths

\* the loop over depends_list at the end of _link_dependencies, from its
\* j-th entry on, with _link_dependency_helper for each entry
RECURSIVE LinkDependencyLoop(_, _, _, _)
LinkDependencyLoop(g, i, j, paths) ==
    LET deps == DependsList(g.task_list[i])
    IN IF j > Len(deps) THEN [raised |-> "", graph |-> g]
       ELSE IF deps[j] \in DOMAIN g.task_dict
       THEN LinkDependencyLoop(AddTaskDependency(g, i, g.task_dict[deps[j]]),
                               i, j + 1, paths)
       ELSE IF PathExists(paths, deps[j])
       THEN LinkDependencyLoop(g, i, j + 1, paths)
       ELSE [raised |-> "InvalidTaskDefinition", graph |-> g]

\* one pass of the loop of _link_dependencies, for task_list[i]
LinkTaskOf(g, i, paths) ==
    LET task == g.task_list[i]
        withDepends == GetOrCreate(g.resource_dict, Range(DependsList(task)))
        withCreates == GetOrCreate(withDepends, Range(CreatesList(task)))
        kept == IF task.pseudo THEN withCreates \ {task.creates} ELSE withCreates
    IN LinkDependencyLoop([g EXCEPT !.resource_dict = kept], i, 1, paths)

\* get_tasks(task_id_or_tag): the list returned, or the exception raised.
\* TaskGraph defines no tag_dict: line 167 raises AttributeError.
GetTasksOutcome(g, task_id_or_tag) ==
    IF task_id_or_tag \in DOMAIN g.task_dict
    THEN [called |-> TRUE, task_id_or_tag |-> task_id_or_tag,
          raised |-> "", tasks |-> <<g.task_dict[task_id_or_tag]>>]
    ELSE [called |-> TRUE, task_id_or_tag |-> task_id_or_tag,
          raised |-> "AttributeError", tasks |-> <<>>]

\* the for loop of __init__: Task(self, **task_kwargs), which adds itself
AddTask ==
    /\ init_pc = "add"
    /\ init_i <= Len(task_kwargs_list)
    /\ LET added == Add(graph, task_kwargs_list[init_i])
       IN /\ graph' = added.graph
          /\ IF added.raised = ""
             THEN init_pc' = init_pc /\ init_i' = init_i + 1
             ELSE init_pc' = added.raised /\ init_i' = init_i
    /\ UNCHANGED <<task_kwargs_list, exists, got, runVars, other_wrote, bfsVars>>

\* __init__, line 59
Dereference ==
    /\ init_pc = "add"
    /\ init_i > Len(task_kwargs_list)
    /\ graph' = [graph EXCEPT !.task_list = DereferenceDependsAliases(@)]
    /\ init_pc' = "link"
    /\ init_i' = 1
    /\ UNCHANGED <<task_kwargs_list, exists, got, runVars, other_wrote, bfsVars>>

\* __init__, line 60: one pass of the loop of _link_dependencies
LinkTask ==
    /\ init_pc = "link"
    /\ init_i <= Len(graph.task_list)
    /\ LET linked == LinkTaskOf(graph, init_i, exists)
       IN /\ graph' = linked.graph
          /\ IF linked.raised = ""
             THEN init_pc' = init_pc /\ init_i' = init_i + 1
             ELSE init_pc' = linked.raised /\ init_i' = init_i
    /\ UNCHANGED <<task_kwargs_list, exists, got, runVars, other_wrote, bfsVars>>

\* __init__, line 61: _load_state
LoadStateOfGraph ==
    /\ init_pc = "link"
    /\ init_i > Len(graph.task_list)
    /\ graph' = [graph EXCEPT !.task_durations = LoadState(duration_csv),
                              !.loaded = TRUE]
    /\ init_pc' = "built"
    /\ UNCHANGED <<task_kwargs_list, exists, init_i, got, runVars, other_wrote, bfsVars>>

\* a call of get_tasks on the constructed graph
CallGetTasks ==
    /\ init_pc = "built"
    /\ got = NotCalled
    /\ \E task_id_or_tag \in 1..TagId :
          got' = GetTasksOutcome(graph, task_id_or_tag)
    /\ UNCHANGED <<task_kwargs_list, exists, graph, init_pc, init_i, runVars,
                   other_wrote, bfsVars>>

NextConstruct ==
    \/ AddTask
    \/ Dereference
    \/ LinkTask
    \/ LoadStateOfGraph
    \/ CallGetTasks

\* no command is running
RunIdle ==
    /\ depends = [t \in Tasks |-> {}]
    /\ pseudo = {}
    /\ current = [t \in Tasks |-> "f1"]
    /\ state_csv = NoTable
    /\ duration_csv = [t \in Tasks |-> FloatRepr(RecordedDuration)]
    /\ task_id = NoTaskId
    /\ force = FALSE
    /\ dry_run = FALSE
    /\ task_graph = TaskGraph(<<>>)
    /\ pc = "idle"
    /\ traversal = <<>>
    /\ starting_tasks = <<>>
    /\ order = <<>>
    /\ pos = 0
    /\ log = <<>>
    /\ saves = 0
    /\ before_save = NoTable
    /\ last_override = {}
    /\ exit_code = NotExited
    /\ error = NoError
    /\ initial_storage = <<state_csv, duration_csv>>
    /\ other_wrote = NoTable

\* the `depends` values over a set of identifiers: None, one identifier, or
\* a list of at most two
DependsValues(ids) ==
    {NoDepends} \cup {SingleDepends(d) : d \in ids}
    \cup {ListDepends(<<>>)} \cup {ListDepends(<<d>>) : d \in ids}
    \cup {ListDepends(<<d, e>>) : d, e \in ids}

\* declarations whose `creates` and `alias` values may collide
CollidingDeclaration ==
    [creates : 1..2, alias : {NoAlias} \cup (1..3),
     depends : {NoDepends}, pseudo : {FALSE}, tags : {{}}]

\* declarations with distinct `creates` values, an alias or none; task k
\* has the `depends` value d, which names tasks, aliases or paths declared
\* before or after it
AliasedDeclarations(k, d, aliased, pseudotasks) ==
    [i \in 1..NumTasks |->
        [creates |-> i,
         alias   |-> IF i \in aliased THEN AliasOf(i) ELSE NoAlias,
         depends |-> IF i = k THEN d ELSE NoDepends,
         pseudo  |-> i \in pseudotasks,
         tags    |-> {}]]

\* declarations in which every task may depend on one task, itself
\* included, and may carry a tag
ChainedDeclarations(dep, tagged) ==
    [i \in 1..NumTasks |->
        [creates |-> i,
         alias   |-> NoAlias,
         depends |-> IF dep[i] = 0 THEN NoDepends ELSE SingleDepends(dep[i]),
         pseudo  |-> FALSE,
         tags    |-> IF i \in tagged THEN {TagId} ELSE {}]]

InitConstruct ==
    /\ RunIdle
    /\ BfsIdle
    /\ \/ /\ task_kwargs_list \in [1..NumTasks -> CollidingDeclaration]
          /\ exists = {}
       \/ /\ \E k \in Tasks, d \in DependsValues(1..FilePath) :
                \E aliased \in SUBSET Tasks, pseudotasks \in SUBSET Tasks :
                   task_kwargs_list = AliasedDeclarations(k, d, aliased, pseudotasks)
          /\ exists \in SUBSET {FilePath}
       \/ /\ \E dep \in [Tasks -> 0..NumTasks], tagged \in SUBSET Tasks :
                task_kwargs_list = ChainedDeclarations(dep, tagged)
          /\ exists = {}
    /\ graph = EmptyGraph
    /\ init_pc = "add"
    /\ init_i = 1
    /\ got = NotCalled

SpecConstruct == InitConstruct /\ [][NextConstruct]_vars

\* ===================================================================
\* iter_graph step by step, on graphs that may have cycles
\* ===================================================================
\* mutant of NotYetSeen: a neighbour is enqueued unless it is pending; the
\* difference with done is left out
NotPending(updownset, dn, hset) == updownset \ hset

\* lines 87-88: the neighbours the for loop appends to horizon
NotYetSeen(updownset, dn, hset) == (updownset \ dn) \ hset

\* lines 69-80: the start of iter_graph
IterStart ==
    /\ bfs_pc = "call"
    /\ \E tasks \in (IF bfs_tasks # <<>> THEN {bfs_tasks}
                     ELSE IF bfs_downstream THEN Perms(GetSourceTasks(bfs_graph))
                     ELSE Perms(GetSinkTasks(bfs_graph))) :
          /\ bfs_horizon' = tasks
          /\ bfs_horizon_set' = Range(tasks)
    /\ bfs_done' = {}
    /\ bfs_task_order' = <<>>
    /\ bfs_pc' = "loop"
    /\ UNCHANGED <<bfs_graph, bfs_tasks, bfs_downstream, bfs_steps, runVars,
                   other_wrote, initVars>>

\* lines 81-90: one pass of the while loop
IterStep ==
    /\ bfs_pc = "loop"
    /\ bfs_horizon # <<>>
    /\ LET n == Len(bfs_horizon)
           task == IF bfs_downstream THEN bfs_horizon[1] ELSE bfs_horizon[n]
           rest == IF bfs_downstream THEN SubSeq(bfs_horizon, 2, n)
                   ELSE SubSeq(bfs_horizon, 1, n - 1)
           hset == bfs_horizon_set \ {task}
           dn == bfs_done \cup {task}
           updownset == IF bfs_downstream THEN DownstreamTasks(bfs_graph, task)
                        ELSE UpstreamTasks(bfs_graph, task)
       IN /\ bfs_done' = dn
          /\ bfs_task_order' = Append(bfs_task_order, task)
          /\ \E p \in Perms(NotYetSeen(updownset, dn, hset)) :
                /\ bfs_horizon' = rest \o p
                /\ bfs_horizon_set' = hset \cup Range(p)
    /\ bfs_steps' = bfs_steps + 1
    /\ UNCHANGED <<bfs_pc, bfs_graph, bfs_tasks, bfs_downstream, runVars,
                   other_wrote, initVars>>

\* line 91: return task_order
IterReturn ==
    /\ bfs_pc = "loop"
    /\ bfs_horizon = <<>>
    /\ bfs_pc' = "returned"
    /\ UNCHANGED <<bfs_graph, bfs_tasks, bfs_downstream, bfs_horizon,
                   bfs_horizon_set, bfs_done, bfs_task_order, bfs_steps, runVars,
                   other_wrote, initVars>>

NextIter ==
    \/ IterStart
    \/ IterStep
    \/ IterReturn

\* the `tasks` arguments: None, one task, or two tasks in either order, the
\* same task twice included
StartLists(S) ==
    {<<>>} \cup {<<t>> : t \in S} \cup {<<t, u>> : t \in S, u \in S}

\* Any links between different tasks, cycles included; the first task may
\* also depend on its own `creates` and so be its own upstream task.
InitIter ==
    /\ RunIdle
    /\ InitIdle
    /\ \E up \in [Tasks -> SUBSET Tasks] :
          /\ \A t \in Tasks \ {1} : t \notin up[t]
          /\ bfs_graph = [task_list |-> Declared, upstream_tasks |-> up]
    /\ bfs_tasks \in StartLists(Tasks)
    /\ bfs_downstream \in BOOLEAN
    /\ bfs_pc = "call"
    /\ bfs_horizon = <<>>
    /\ bfs_horizon_set = {}
    /\ bfs_done = {}
    /\ bfs_task_order = <<>>
    /\ bfs_steps = 0

SpecIter == InitIter /\ [][NextIter]_vars

\* ===================================================================
\* Properties
\* ===================================================================
\* Two graph instances on one workspace
\* ===================================================================
\* A second `workflow run <task>` process works on the same .workflow
\* directory while this command is between its construction and its save.
\* It builds the subgraph its task needs, runs the task and returns from
\* _run_helper through save_state(): state.csv and duration.csv are
\* rewritten by its instance.
OtherInstanceSaves ==
    /\ pc \in {"start", "restricted", "running"}
    /\ other_wrote = NoTable
    /\ \E task \in Tasks \ pseudo :
       \E other \in SubgraphNeededFor(TaskGraph(Declared), <<task>>) :
       \E f \in Fingerprints :
          LET ran == [other EXCEPT !.task_durations =
                          Update(@, [t \in {task} |-> MeasuredDuration])]
          IN /\ current' = [current EXCEPT ![task] = f]
             /\ state_csv' = SaveResourceStates(ran, current', NoTable)
             /\ duration_csv' = SaveDurations(ran)
             /\ other_wrote' = [name \in ran.resource_dict |-> current'[name]]
    /\ UNCHANGED <<depends, pseudo, task_id, force, dry_run, task_graph, pc,
                   traversal, starting_tasks, order, pos, log, saves,
                   before_save, last_override, exit_code, error,
                   initial_storage, initVars, bfsVars>>

\* this command is a real run scoped to one task
InitShared == Init /\ ~dry_run /\ task_id # NoTaskId

NextShared ==
    \/ Restrict
    \/ RunAll
    \/ RunAllOutOfSync
    \/ SkipTask
    \/ TimedRun
    \/ TimedRunFails
    \/ EndRun
    \/ MarkSuccessful
    \/ OtherInstanceSaves

SpecShared == InitShared /\ [][NextShared]_vars

\* ===================================================================
\* duration_message
\* ===================================================================
\* lines 282-284: the sum of task_durations.get(task.id, 0.0) over tasks
RECURSIVE MinDuration(_, _)
MinDuration(g, tasks) ==
    IF tasks = <<>> THEN 0
    ELSE (IF Head(tasks) \in DOMAIN g.task_durations
          THEN g.task_durations[Head(tasks)] ELSE 0)
         + MinDuration(g, Tail(tasks))

\* lines 285-292: the loop over iter_graph(tasks); a pseudotask is passed
\* over, a task without a recorded duration counts as unknown
RECURSIVE MaxDuration(_, _)
MaxDuration(g, task_order) ==
    IF task_order = <<>>
    THEN [max_duration |-> 0, n_unknown |-> 0, n_tasks |-> 0]
    ELSE LET task == Head(task_order)
             rest == MaxDuration(g, Tail(task_order))
         IN IF task \in pseudo THEN rest
            ELSE IF task \in DOMAIN g.task_durations
            THEN [rest EXCEPT !.n_tasks = @ + 1,
                              !.max_duration = @ + g.task_durations[task]]
            ELSE [rest EXCEPT !.n_tasks = @ + 1, !.n_unknown = @ + 1]

\* duration_message(tasks), with task_order what iter_graph(tasks) returned
\* to it: the numbers the message reports
DurationMessage(g, tasks, task_order) ==
    LET over == MaxDuration(g, task_order)
    IN [none         |-> (Len(tasks) = 0),
        low          |-> Len(tasks),
        high         |-> over.n_tasks,
        n_unknown    |-> over.n_unknown,
        min_duration |-> MinDuration(g, tasks),
        max_duration |-> over.max_duration]

\* ===================================================================
\* get_out_of_sync_tasks on graph g: every list it can return
GetOutOfSyncTasks(g) == {FilterOutOfSync(g, o) : o \in IterGraph(g, <<>>, TRUE)}

\* the tasks reachable from S along downstream links, S included
RECURSIVE DownstreamClosure(_, _)
DownstreamClosure(g, S) ==
    LET more == S \cup UNION {DownstreamTasks(g, t) : t \in S}
    IN IF more = S THEN S ELSE DownstreamClosure(g, more)

NoDuplicates(s) == \A i, j \in 1..Len(s) : s[i] = s[j] => i = j

\* s keeps the relative order t gives to its elements
InOrderOf(s, t) ==
    \A i, j \in 1..Len(s) : i < j =>
        \E k, l \in 1..Len(t) : k < l /\ t[k] = s[i] /\ t[l] = s[j]

Ran == pc \in {"running", "returned", "done", "exited"}
Returned == pc \in {"returned", "done"}
LogOf(task) == {i \in 1..Len(log) : log[i].task = task}
FailedEntries == {i \in 1..Len(log) : log[i].kind = "failed"}

\* C1: whenever a task and one of its upstream tasks are both executed in
\* a run, the upstream task is executed first.
C1_DependencyOrder ==
    \A i, j \in 1..Len(log) :
        log[i].task \in UpstreamTasks(task_graph, log[j].task) => i < j

\* C2: after a task's timed run has failed or been interrupted, state.csv
\* holds the empty value for the task's resource whatever its current
\* fingerprint is, and get_out_of_sync_tasks of a graph built from the same
\* storage lists the task.
C2_FailedNeverUpToDate ==
    \A i \in FailedEntries :
        /\ log[i].task \in DOMAIN state_csv
        /\ state_csv[log[i].task] = EmptyState
        /\ \A later \in {TaskGraph(Declared)} :
              \A out \in GetOutOfSyncTasks(later) : log[i].task \in Range(out)

\* C2 witness: a task failed while its resource carries the fingerprint
\* state.csv held for it before the save
C2_Witness ==
    /\ pc = "exited"
    /\ \E i \in FailedEntries :
          /\ log[i].task \in DOMAIN before_save
          /\ before_save[log[i].task] = current[log[i].task]

\* C3: save_state leaves every entry of state.csv whose key is neither a
\* resource of the saving graph nor an override as it was, and writes the
\* current fingerprint for its own resources.
C3_SaveKeepsOtherEntries ==
    saves > 0 =>
        /\ \A k \in DOMAIN before_save :
              (k \notin task_graph.resource_dict /\ k \notin last_override)
                  => (k \in DOMAIN state_csv /\ state_csv[k] = before_save[k])
        /\ \A k \in task_graph.resource_dict \ last_override :
              k \in DOMAIN state_csv /\ state_csv[k] = current[k]

\* C3 witness: a subgraph of one task has saved while state.csv held the
\* entries of two tasks outside it
C3_Witness ==
    /\ saves > 0
    /\ Len(task_graph.task_list) = 1
    /\ Cardinality((DOMAIN before_save) \ GraphTasks(task_graph)) >= 2
    /\ \E k \in GraphTasks(task_graph) :
          k \in DOMAIN before_save /\ before_save[k] # state_csv[k]

\* C4: a mock run leaves state.csv and duration.csv as they were and
\* invokes no timed run; a real run that is not interrupted saves exactly
\* once, after the last task of the traversal.
C4_MockNeverPersists ==
    /\ dry_run =>
          /\ saves = 0
          /\ <<state_csv, duration_csv>> = initial_storage
          /\ \A i \in 1..Len(log) : log[i].kind = "mock"
    /\ (~dry_run /\ Returned) => saves = 1
    /\ (~dry_run /\ pc = "running") => saves = 0

\* C4 witness: a mock run has returned after mocking a task whose resource
\* differs from its entry in state.csv
C4_Witness ==
    /\ dry_run
    /\ pc = "done"
    /\ \E i \in 1..Len(log) :
          /\ log[i].task \in task_graph.resource_dict
          /\ current[log[i].task] # GetStateFromStorage(log[i].task)

\* C5: a failure flushes state once and ends the process with the error's
\* exit code, 1 when it carries none; no later task is executed, the failed
\* task is not run again and there is no second save.
C5_FailureEndsRun ==
    \A i \in FailedEntries :
        /\ i = Len(log)
        /\ LogOf(log[i].task) = {i}
        /\ pc = "exited"
        /\ saves = 1
        /\ exit_code = (IF error.type = "ShellError" THEN error.exit_code ELSE 1)

\* C5 witness: the process has exited on an interruption while a task that
\* is out of sync was still to come
C5_Witness ==
    /\ pc = "exited"
    /\ error.type = "KeyboardInterrupt"
    /\ \E k \in (pos + 1)..Len(order) : DoRunFunc(task_graph, order[k])

\* C6: `successful` is false until the requested run has returned without
\* failure, and is false when the process exits on a failure.
C6_SuccessfulOnlyAfterRun ==
    /\ task_graph.successful => (pc = "done" /\ FailedEntries = {} /\ exit_code = NotExited)
    /\ pc # "done" => ~task_graph.successful
    /\ FailedEntries # {} => ~task_graph.successful

\* C6 witness: a run restricted to a subgraph has exited on a failure
C6_Witness ==
    /\ pc = "exited"
    /\ task_id # NoTaskId
    /\ Len(task_graph.task_list) < NumTasks
    /\ Len(log) > 1

\* C7: an uninterrupted run_all executes every task that is not a
\* pseudotask exactly once, mocked in a mock run and timed otherwise,
\* whatever its sync status; a pseudotask is never executed.
C7_RunAllRunsEveryTaskOnce ==
    /\ \A i \in 1..Len(log) : log[i].task \notin pseudo
    /\ (force /\ Returned) =>
          \A t \in GraphTasks(task_graph) \ pseudo :
              /\ Cardinality(LogOf(t)) = 1
              /\ \A i \in LogOf(t) : log[i].kind = (IF dry_run THEN "mock" ELSE "timed")

\* C7 witness: run_all has returned on a graph with a pseudotask, having
\* executed a task that was in sync
C7_Witness ==
    /\ force
    /\ pc = "done"
    /\ GraphTasks(task_graph) \cap pseudo # {}
    /\ \E i \in 1..Len(log) : log[i].in_sync

\* C8 as stated: the tasks run_all_out_of_sync visits are exactly the
\* downstream closure of the tasks out of sync at the start, so none when
\* no task is out of sync.
C8_VisitsClosureOfStart ==
    (Ran /\ ~force) =>
        Range(order) = DownstreamClosure(task_graph, Range(starting_tasks))

\* C8 amended: with a non-empty start list the traversal begins with the
\* start list and visits exactly its downstream closure; with an empty
\* start list it falls back to the source tasks and visits every task,
\* executing none; a task is executed only if it is no pseudotask and
\* reported not-in-sync when it was reached.
C8_VisitsClosureOrAll ==
    (Ran /\ ~force) =>
        /\ starting_tasks # <<>> =>
              /\ Range(order) = DownstreamClosure(task_graph, Range(starting_tasks))
              /\ SubSeq(order, 1, Len(starting_tasks)) = starting_tasks
        /\ starting_tasks = <<>> =>
              /\ Range(order) = GraphTasks(task_graph)
              /\ log = <<>>
        /\ NoDuplicates(order)
        /\ \A i \in 1..Len(log) : log[i].task \notin pseudo /\ ~log[i].in_sync

\* C8 witness: no task was out of sync at the start, and the run visited the
\* whole graph
C8_Witness ==
    /\ ~force
    /\ pc = "done"
    /\ starting_tasks = <<>>
    /\ Len(order) = NumTasks

\* C9: get_out_of_sync_tasks returns exactly the tasks that are not
\* pseudotasks and not in sync, each once, in the order of the downstream
\* traversal from the source tasks.
C9_OutOfSyncTasks ==
    (~force /\ pc = "running" /\ pos = 1) =>
        /\ Range(starting_tasks) =
              {t \in GraphTasks(task_graph) : t \notin pseudo /\ ~InSync(task_graph, t)}
        /\ NoDuplicates(starting_tasks)
        /\ InOrderOf(starting_tasks, traversal)

\* C9 witness: two tasks are listed while a pseudotask whose dependency is
\* out of sync is left out
C9_Witness ==
    /\ ~force /\ pc = "running" /\ pos = 1
    /\ Len(starting_tasks) >= 2
    /\ \E t \in GraphTasks(task_graph) \cap pseudo : ~InSync(task_graph, t)

\* C10: iter_graph downstream from the source tasks returns every task of
\* the graph exactly once, each task that has upstream tasks after at
\* least one of them.
C10_DownstreamOrder ==
    (pc = "running" /\ pos = 1) =>
        /\ Range(traversal) = GraphTasks(task_graph)
        /\ NoDuplicates(traversal)
        /\ \A i \in 1..Len(traversal) :
              UpstreamTasks(task_graph, traversal[i]) # {} =>
                  \E j \in 1..(i - 1) :
                      traversal[j] \in UpstreamTasks(task_graph, traversal[i])

\* C10 witness: the order of a graph of NumTasks tasks in which a task has
\* two upstream tasks
C10_Witness ==
    /\ pc = "running" /\ pos = 1
    /\ Len(traversal) = NumTasks
    /\ \E t \in GraphTasks(task_graph) : Cardinality(UpstreamTasks(task_graph, t)) >= 2

\* ------------------------------------------------ graph construction
\* the keys registered by the declarations before the i-th
KeysBefore(decls, i) == UNION {KeysOf(decls[j]) : j \in 1..(i - 1)}

\* the i-th declaration repeats a key: its alias is registered already, or
\* its `creates` is, or equals its own alias
Collides(decls, i) ==
    \/ decls[i].alias # NoAlias /\ decls[i].alias \in KeysBefore(decls, i)
    \/ decls[i].creates \in KeysBefore(decls, i)
    \/ decls[i].creates = decls[i].alias

Colliding(decls) == {i \in 1..Len(decls) : Collides(decls, i)}

Constructed == init_pc = "built"
PastAdding == init_pc \in {"link", "built", "InvalidTaskDefinition"}

\* C11: __init__ raises NonUniqueTask at the first declaration that repeats
\* a registered `creates` or alias key, with no later task added, no
\* dependency dereferenced or linked, no resource instantiated and no state
\* loaded; when construction gets past the adding loop no declaration
\* repeats a key and task_dict maps every `creates` and every alias to its
\* own task.
C11_UniqueIdentifiers ==
    /\ init_pc = "NonUniqueTask" =>
          /\ Colliding(task_kwargs_list) # {}
          /\ \A i \in Colliding(task_kwargs_list) : Len(graph.task_list) <= i
          /\ Len(graph.task_list) \in Colliding(task_kwargs_list)
          /\ graph.task_list = SubSeq(task_kwargs_list, 1, Len(graph.task_list))
          /\ graph.resource_dict = {}
          /\ \A i \in 1..Len(graph.task_list) :
                graph.upstream_tasks[i] = {} /\ graph.downstream_tasks[i] = {}
          /\ ~graph.loaded
    /\ init_pc = "add" => \A i \in Colliding(task_kwargs_list) : init_i <= i
    /\ PastAdding =>
          /\ Colliding(task_kwargs_list) = {}
          /\ Len(graph.task_list) = Len(task_kwargs_list)
          /\ DOMAIN graph.task_dict =
                UNION {KeysOf(task_kwargs_list[i]) : i \in 1..Len(task_kwargs_list)}
          /\ \A i \in 1..Len(task_kwargs_list) :
                \A k \in KeysOf(task_kwargs_list[i]) : graph.task_dict[k] = i

\* C11 witness: the alias of a declaration equals the `creates` of an
\* earlier one, NonUniqueTask was raised and a later declaration was never
\* added
C11_Witness ==
    /\ init_pc = "NonUniqueTask"
    /\ Len(graph.task_list) < Len(task_kwargs_list)
    /\ \E j \in 1..(Len(graph.task_list) - 1) :
          graph.task_list[j].creates = graph.task_list[Len(graph.task_list)].alias

\* the dependency identifiers of the i-th task as the graph holds them
DepsOf(i) == Range(DependsList(graph.task_list[i]))

\* the tasks whose pass of the linking loop has completed
Linked == IF init_pc = "built" THEN 1..Len(graph.task_list)
          ELSE IF init_pc = "link" THEN 1..(init_i - 1)
          ELSE {}

\* C12: once a task has been linked, each of its dependency identifiers
\* that is a key of task_dict has made that task an upstream task of it and
\* it a downstream task of that task, every other identifier is an existing
\* path, and the task has no other upstream task; InvalidTaskDefinition is
\* raised only at an identifier that is neither; so a constructed graph has
\* every dependency resolved and a failed linking has one that is not.
C12_LinkOrFail ==
    /\ \A i \in Linked :
          /\ \A d \in DepsOf(i) :
                IF d \in DOMAIN graph.task_dict
                THEN /\ graph.task_dict[d] \in graph.upstream_tasks[i]
                     /\ i \in graph.downstream_tasks[graph.task_dict[d]]
                ELSE d \in exists
          /\ graph.upstream_tasks[i] =
                {graph.task_dict[d] : d \in DepsOf(i) \cap DOMAIN graph.task_dict}
    /\ PastAdding =>
          \A i, j \in 1..Len(graph.task_list) :
              (j \in graph.upstream_tasks[i]) <=> (i \in graph.downstream_tasks[j])
    /\ init_pc = "InvalidTaskDefinition" =>
          \E d \in DepsOf(init_i) : d \notin DOMAIN graph.task_dict /\ d \notin exists
    /\ Constructed =>
          \A i \in 1..Len(graph.task_list) :
              \A d \in DepsOf(i) : d \in DOMAIN graph.task_dict \/ d \in exists

\* C12 witness: a constructed graph in which a task depends on another task
\* and on an existing path
C12_Witness ==
    /\ Constructed
    /\ \E i \in 1..Len(graph.task_list) :
          /\ graph.upstream_tasks[i] # {}
          /\ FilePath \in DepsOf(i)
          /\ FilePath \in exists

\* the `creates` of the declaration whose alias is name, name without one
Canonical(decls, name) ==
    IF \E k \in 1..Len(decls) : decls[k].alias = name
    THEN decls[CHOOSE k \in 1..Len(decls) : decls[k].alias = name].creates
    ELSE name

\* C13: after _dereference_depends_aliases every entry of every `depends`
\* that was the alias of a declared task is that task's `creates`, every
\* other entry and every other field is as declared, a single value stays
\* single and a list keeps its length; dereferencing again changes nothing.
C13_AliasesDereferenced ==
    PastAdding =>
        /\ \A i \in 1..Len(graph.task_list) :
              LET task == graph.task_list[i]
                  declared == task_kwargs_list[i]
              IN /\ task = [declared EXCEPT !.depends = task.depends]
                 /\ task.depends.is_list = declared.depends.is_list
                 /\ Len(task.depends.entries) = Len(declared.depends.entries)
                 /\ \A j \in 1..Len(declared.depends.entries) :
                       task.depends.entries[j] =
                           Canonical(task_kwargs_list, declared.depends.entries[j])
        /\ DereferenceDependsAliases(graph.task_list) = graph.task_list

\* C13 witness: a list whose first entry is the alias of a task declared
\* later and whose second entry is no alias
C13_Witness ==
    /\ PastAdding
    /\ \E i \in 1..Len(graph.task_list) :
          LET declared == task_kwargs_list[i].depends
          IN /\ declared.is_list
             /\ Len(declared.entries) = 2
             /\ \E k \in (i + 1)..Len(task_kwargs_list) :
                   task_kwargs_list[k].alias = declared.entries[1]
             /\ graph.task_list[i].depends.entries[1] # declared.entries[1]
             /\ graph.task_list[i].depends.entries[2] = declared.entries[2]

RECURSIVE UpstreamClosure(_, _)
UpstreamClosure(g, S) ==
    LET more == S \cup UNION {UpstreamTasks(g, t) : t \in S}
    IN IF more = S THEN S ELSE UpstreamClosure(g, more)

TimedEntries == {i \in 1..Len(log) : log[i].kind = "timed"}

\* C16 as stated: while a real run is between two task executions,
\* state.csv holds the current fingerprint of every task completed so far.
C16_SavedAfterEachTask ==
    (~dry_run /\ pc = "running") =>
        \A i \in TimedEntries :
            /\ log[i].task \in DOMAIN state_csv
            /\ state_csv[log[i].task] = current[log[i].task]

\* C16 amended: a real run writes nothing while it is between two task
\* executions, state.csv and duration.csv are as they were when the command
\* started; the tasks completed are on storage once the run has returned
\* (fingerprint and measured duration) or has exited on a failure
\* (fingerprint).
C16_SavedOnlyWhenRunEnds ==
    /\ (~dry_run /\ pc = "running") =>
          /\ saves = 0
          /\ <<state_csv, duration_csv>> = initial_storage
    /\ (~dry_run /\ (Returned \/ pc = "exited")) =>
          \A i \in TimedEntries :
              /\ log[i].task \in DOMAIN state_csv
              /\ state_csv[log[i].task] = current[log[i].task]
              /\ log[i].task \in DOMAIN duration_csv
              /\ FloatOf(duration_csv[log[i].task]) = MeasuredDuration

\* C16 witness: a real run has completed a task whose new fingerprint is not
\* on storage, and another task is still to be executed
C16_Witness ==
    /\ ~dry_run
    /\ pc = "running"
    /\ \E i \in TimedEntries :
          current[log[i].task] # GetStateFromStorage(log[i].task)
    /\ \E k \in pos..Len(order) : DoRunFunc(task_graph, order[k])

\* ---------------------------------------------------------- pseudotasks
\* C17: resource_dict has no entry for the `creates` of a pseudotask of the
\* graph, whether or not other tasks depend on it, and a save_state leaves
\* state.csv without a row for it, or with the row it read.
C17_PseudotaskHasNoResource ==
    \A p \in GraphTasks(task_graph) \cap pseudo :
        /\ p \notin task_graph.resource_dict
        /\ saves > 0 =>
              (p \in DOMAIN state_csv =>
                  (p \in DOMAIN before_save /\ state_csv[p] = before_save[p]))

\* ------------------------------------------------------------ iter_graph
\* the tasks a call reaches from its start along the links it follows
BfsStart ==
    IF bfs_tasks # <<>> THEN Range(bfs_tasks)
    ELSE IF bfs_downstream THEN GetSourceTasks(bfs_graph)
    ELSE GetSinkTasks(bfs_graph)

BfsReachable ==
    IF bfs_downstream THEN DownstreamClosure(bfs_graph, BfsStart)
    ELSE UpstreamClosure(bfs_graph, BfsStart)

\* how many times t is in the list s
Occurrences(s, t) == Cardinality({i \in 1..Len(s) : s[i] = t})

\* C18: on any graph, with or without cycles, in either direction and from
\* any start, the while loop of iter_graph makes at most one pass for each
\* task of the graph and one more for each repeat in the start list, and
\* then returns; a task is in task_order once at most unless the start list
\* itself repeats it; the order returned holds exactly the tasks reachable from the start, so a
\* task of a cycle that no source task reaches is left out of the default
\* downstream order.
C18_IterGraphTerminates ==
    /\ bfs_steps <= Len(bfs_graph.task_list) + Len(bfs_tasks)
                        - Cardinality(Range(bfs_tasks))
    /\ Len(bfs_task_order) = bfs_steps
    /\ \A t \in GraphTasks(bfs_graph) :
          Occurrences(bfs_task_order, t) <=
              IF t \in Range(bfs_tasks) THEN Occurrences(bfs_tasks, t) ELSE 1
    /\ bfs_pc = "returned" => Range(bfs_task_order) = BfsReachable

\* C18 witness: the default downstream order of a graph with a cycle has
\* been returned without the tasks of the cycle, which no source reaches
C18_Witness ==
    /\ bfs_pc = "returned"
    /\ bfs_downstream
    /\ bfs_tasks = <<>>
    /\ bfs_task_order # <<>>
    /\ \E t, u \in GraphTasks(bfs_graph) \ Range(bfs_task_order) :
          /\ t # u
          /\ t \in UpstreamTasks(bfs_graph, u)
          /\ u \in UpstreamTasks(bfs_graph, t)

\* ------------------------------------------------- two instances
\* C19: once this instance has saved, every state.csv row another instance
\* wrote between this instance's construction and its save, under a key
\* that is no resource of this instance, is on storage with the value the
\* other instance wrote.
C19_SaveKeepsOtherInstanceRows ==
    saves > 0 =>
        \A k \in DOMAIN other_wrote :
            k \notin task_graph.resource_dict
                => (k \in DOMAIN state_csv /\ state_csv[k] = other_wrote[k])

\* C19 witness: this instance has saved after another instance wrote a row
\* for a resource outside this graph with a fingerprint state.csv did not
\* hold when this command started
C19_Witness ==
    /\ saves > 0
    /\ \E k \in DOMAIN other_wrote :
          /\ k \notin task_graph.resource_dict
          /\ (k \notin DOMAIN initial_storage[1]
                \/ initial_storage[1][k] # other_wrote[k])
    /\ \E k \in task_graph.resource_dict :
          k \in DOMAIN state_csv /\ k \notin DOMAIN other_wrote

\* ------------------------------------------------------------ get_tasks
\* C20: a call of get_tasks on the constructed graph raises nothing; for an
\* identifier registered as an id or an alias it returns that one task, and
\* for any other identifier the tasks that carry it as a tag, none when no
\* task does.
C20_GetTasksByIdOrTag ==
    got.called =>
        /\ got.raised = ""
        /\ IF got.task_id_or_tag \in DOMAIN graph.task_dict
           THEN got.tasks = <<graph.task_dict[got.task_id_or_tag]>>
           ELSE /\ NoDuplicates(got.tasks)
                /\ Range(got.tasks) =
                      {j \in 1..Len(graph.task_list) :
                          HasTag(graph.task_list[j], got.task_id_or_tag)}

\* ------------------------------------------------------- duration_message
\* the message _run_helper logs before its loop (line 321); nothing has run
\* while the loop is at its first task, so task_durations is as it was
Estimate == DurationMessage(task_graph, starting_tasks, order)

\* C21: for the non-empty task list run_all or run_all_out_of_sync passes,
\* the message reports a count range whose lower end is not above its upper
\* end and a duration range whose lower end is not above its upper end.
C21_EstimateWellFormed ==
    (pc = "running" /\ pos = 1 /\ starting_tasks # <<>>) =>
        /\ Estimate.low <= Estimate.high
        /\ Estimate.min_duration <= Estimate.max_duration

\* ------------------------------------------------- after an interruption
\* the tasks whose timed_run was invoked, to the end or to a failure
Executed == {log[i].task : i \in 1..Len(log)}

\* the fingerprint state.csv held for a resource when the command started
StoredAtStart(resource) ==
    IF resource \in DOMAIN initial_storage[1]
    THEN initial_storage[1][resource] ELSE NoState

\* a task the run has not executed was out of sync when the run started:
\* one of its resources, not written by the run so far either, has a
\* current fingerprint that differs from the one stored at the start
OutOfSyncAtStart(task) ==
    \E r \in TaskResources(task_graph, task) \ Executed :
        current[r] # StoredAtStart(r)

\* C22: once a run has exited on a failure or an interruption, every task
\* that is not a pseudotask, was out of sync when the run started and has
\* not been executed is in every list get_out_of_sync_tasks returns on the
\* flushed state.
C22_UnexecutedStayOutOfSync ==
    pc = "exited" =>
        \A task \in GraphTasks(task_graph) \ (pseudo \cup Executed) :
            OutOfSyncAtStart(task) =>
                \A tasks \in GetOutOfSyncTasks(task_graph) : task \in Range(tasks)

====
